---- MODULE Spec2Model ----
(***************************************************************************)
(* Model of src/lib/middleware.ts: the Middleware wrapper, the Server's    *)
(* registration API (on, use, static), listen/close and the dispatch       *)
(* chain of Server.#run, executed on a JavaScript event loop (one call     *)
(* stack, a FIFO microtask queue, I/O completions as macrotasks).          *)
(*                                                                         *)
(* A string is a sequence of tokens: "/" and "*" are the two characters    *)
(* the code's regular expressions and URLPattern treat specially, every    *)
(* other token stands for a non-empty run of ordinary characters.          *)
(***************************************************************************)
EXTENDS Integers, Sequences, FiniteSets, TLC

\* ------------------------------------------------------------ bounds
\* Guarded handlers created over the server's lifetime.
MaxHandlers == 2
\* Operations (respond, continuation call, awaited I/O) the application's
\* handlers perform, all together, while one request is handled.
MaxOps == 2
\* Tokens of a route or path drawn by the static-file specification.
MaxLen == 3

\* ------------------------------------------------------------ strings
Slash == "/"
Star == "*"

RECURSIVE Concat(_)
\* the concatenation of a list of sequences
Concat(ss) == IF ss = <<>> THEN <<>> ELSE Head(ss) \o Concat(Tail(ss))

RECURSIVE Split(_)
\* String.prototype.split('/'): the segments between the slashes
\* ("" gives [""], "a/" gives ["a", ""])
Split(s) ==
    IF \A i \in 1..Len(s) : s[i] # Slash THEN <<s>>
    ELSE LET i == CHOOSE j \in 1..Len(s) :
                      s[j] = Slash /\ \A m \in 1..(j - 1) : s[m] # Slash
         IN <<SubSeq(s, 1, i - 1)>> \o Split(SubSeq(s, i + 1, Len(s)))

RECURSIVE Join(_)
\* Array.prototype.join('/')
Join(segs) ==
    IF segs = <<>> THEN <<>>
    ELSE IF Len(segs) = 1 THEN Head(segs)
    ELSE Head(segs) \o <<Slash>> \o Join(Tail(segs))

RECURSIVE CollapseSlashes(_)
\* s.replace(/\/+/g, '/')
CollapseSlashes(s) ==
    IF Len(s) < 2 THEN s
    ELSE IF s[1] = Slash /\ s[2] = Slash THEN CollapseSlashes(Tail(s))
    ELSE <<s[1]>> \o CollapseSlashes(Tail(s))

\* s.replace(/\/?\*?$/, '/*'): the leftmost offset from which the rest of
\* the string is "", "/", "*" or "/*" is cut off and replaced by "/*"
ReplaceTail(s) ==
    LET tails == {<<>>, <<Slash>>, <<Star>>, <<Slash, Star>>}
        i == CHOOSE j \in 0..Len(s) :
                 /\ SubSeq(s, j + 1, Len(s)) \in tails
                 /\ \A m \in 0..(j - 1) : SubSeq(s, m + 1, Len(s)) \notin tails
    IN SubSeq(s, 1, i) \o <<Slash, Star>>

\* line 145: route = `/${route.replace(/\/?\*?$/, '/*')}`.replace(/\/+/g, '/')
NormalizeRoute(route) == CollapseSlashes(<<Slash>> \o ReplaceTail(route))

\* line 150: route.split('/').filter((item) => item != '*' && item != '')
Base(route) == SelectSeq(Split(route), LAMBDA seg : seg # <<Star>> /\ seg # <<>>)

\* a filter that keeps index > base.length
RestOffByOne(pathname, k) ==
    LET stripped == IF pathname # <<>> /\ Head(pathname) = Slash
                    THEN Tail(pathname) ELSE pathname
        segs == Split(stripped)
    IN IF k + 1 >= Len(segs) THEN <<>> ELSE SubSeq(segs, k + 2, Len(segs))

\* line 151: pathname.replace(/^\//, '').split('/').filter((_, index) => index >= base.length)
Rest(pathname, k) ==
    LET stripped == IF pathname # <<>> /\ Head(pathname) = Slash
                    THEN Tail(pathname) ELSE pathname
        segs == Split(stripped)
    IN IF k >= Len(segs) THEN <<>> ELSE SubSeq(segs, k + 1, Len(segs))

\* Deno.cwd()
Cwd == <<"cwd">>

\* line 152 without the scheme: [Deno.cwd(), root, ...rest].join('/')
FilePath(route, root, pathname) ==
    Join(<<Cwd, root>> \o Rest(pathname, Len(Base(route))))

\* the part after the last '.' of a run of ordinary characters; a run
\* without a '.' is its own last part
Extension(token) ==
    CASE token \in {"readme.txt", "b.txt"} -> "txt"
      [] token = "index.html" -> "html"
      [] OTHER -> token

\* CONTENT_TYPES: from file extension (no leading dot) to MIME type
ContentTypes == [e \in {"txt", "html"} |->
                    IF e = "html" THEN "text/html" ELSE "text/plain"]

\* line 154: CONTENT_TYPES[path.split('/').at(-1)?.split('.').at(-1) ?? '']
\* ?? 'text/plain' (a token with a '.' is the only token of its segment)
ContentType(path) ==
    LET segs == Split(path)
        last == segs[Len(segs)]
    IN IF Len(last) = 1 /\ Extension(last[1]) \in DOMAIN ContentTypes
       THEN ContentTypes[Extension(last[1])]
       ELSE "text/plain"

\* a fetch chain without its catch: the file response whatever happened
StaticPayloadNoCatch(ok, path) == <<"file", path, ContentType(path)>>

\* lines 157-163: the response of the then branch (the body read from
\* path, with its content type), or of the catch branch (status 404)
StaticPayload(ok, path) ==
    IF ok THEN <<"file", path, ContentType(path)>> ELSE <<"404", <<>>, "">>

RECURSIVE PatternPrefix(_, _)
\* a matcher that accepts a path as soon as the pattern matches its start
PatternPrefix(pattern, path) ==
    IF pattern = <<>> THEN TRUE
    ELSE IF Head(pattern) = Star
         THEN \E k \in 0..Len(path) :
                  PatternPrefix(Tail(pattern), SubSeq(path, k + 1, Len(path)))
    ELSE /\ path # <<>>
         /\ Head(path) = Head(pattern)
         /\ PatternPrefix(Tail(pattern), Tail(path))

RECURSIVE PatternTest(_, _)
\* new URLPattern({ pathname: pattern }).test(href): a "*" of the pattern
\* matches any run of characters (slashes included), every other token
\* matches itself
PatternTest(pattern, path) ==
    IF pattern = <<>> THEN path = <<>>
    ELSE IF Head(pattern) = Star
         THEN \E k \in 0..Len(path) :
                  PatternTest(Tail(pattern), SubSeq(path, k + 1, Len(path)))
    ELSE /\ path # <<>>
         /\ Head(path) = Head(pattern)
         /\ PatternTest(Tail(pattern), Tail(path))

\* a method test that forgets 'ANY'
MethodEqual(method, eventMethod) == method = eventMethod

\* line 10: method == event.method || method == 'ANY'
MethodPassed(method, eventMethod) == method = eventMethod \/ method = "ANY"

\* line 12: isPatternPassed && isMethodPassed
Matches(h, method, path) ==
    PatternTest(h.route, path) /\ MethodPassed(h.method, method)

\* ------------------------------------------------------------ state
VARIABLES
    middleware,   \* Server.#middleware (line 24)
    listeners,    \* Server.#listeners (line 25)
    routers,      \* the application's Router objects: each one's handler list
    merged,       \* history: the use(...routers) calls made so far
    created,      \* guarded handlers built so far (the identity of each)
    server,       \* Server.#server (line 26): "null", "open" or "closed"
    atClose,      \* history: the connections as close() last found them
    reqs,         \* per client connection: its HTTP exchange and #run's locals
    acts,         \* every function activation started so far, by number
    stack,        \* the JavaScript call stack (activation numbers, top last)
    queue         \* the microtask queue (activation numbers, FIFO)

vars == <<middleware, listeners, routers, merged, created, server, atClose, reqs, acts, stack, queue>>

\* The application's two Router objects.
RouterIds == {"r1", "r2"}

\* line 5: the guarded handler Middleware(method, route, handler) returns;
\* id tells the handler functions apart, kind is "user" for an application
\* handler and "static" for the handler of lines 147-164 (root: its root)
Guarded(id, method, route, kind, root) ==
    [id |-> id, method |-> method, route |-> route, kind |-> kind, root |-> root]

\* one guarded handler per handler argument, in argument order
Wrapped(first, n, method, route, kind, root) ==
    [i \in 1..n |-> Guarded(first + i - 1, method, route, kind, root)]

\* line 97: handlers.forEach(handler => this.#listeners.push(Middleware(...)))
OnPush(list, first, n, method, route) ==
    list \o Wrapped(first, n, method, route, "user", <<>>)

\* line 128: handlers.forEach(handler => this.#middleware.push(Middleware(...)))
UsePush(list, first, n, method, route, kind, root) ==
    list \o Wrapped(first, n, method, route, kind, root)

\* Router.handlers(): the Router's guarded handlers in its own order
RouterHandlers(r) == routers[r]

\* a use() that merges only handlers[0], the Router it tested
UseFirstRouterPush(list, rs) ==
    IF rs = <<>> THEN list ELSE list \o RouterHandlers(Head(rs))

RECURSIVE UseRouterPush(_, _)
\* line 127: routers.forEach(router => this.#middleware.push(...router.handlers()))
UseRouterPush(list, rs) ==
    IF rs = <<>> THEN list
    ELSE UseRouterPush(list \o RouterHandlers(Head(rs)), Tail(rs))

\* line 57: const handlers = [...this.#middleware, ...this.#listeners]
Chain == middleware \o listeners

\* the exchange of a connection before its request has arrived
NoRequest ==
    [phase |-> "idle", method |-> "", path |-> <<>>, route |-> <<>>,
     handlers |-> <<>>, used |-> {}, responded |-> FALSE, sent |-> <<>>,
     calls |-> <<>>, ops |-> 0]

InitWith(clients) ==
    /\ middleware = <<>>
    /\ listeners = <<>>
    /\ routers = [r \in RouterIds |-> <<>>]
    /\ merged = <<>>
    /\ created = 0
    /\ server = "null"
    /\ atClose = [accepted |-> {}, inflight |-> {}]
    /\ reqs = [c \in clients |-> NoRequest]
    /\ acts = <<>>
    /\ stack = <<>>
    /\ queue = <<>>

\* no JavaScript is running and no microtask is due: the event loop may
\* take the next macrotask
Idle == stack = <<>> /\ queue = <<>>

\* ------------------------------------------------------------ registration
\* The application registers its handlers before it calls listen().
Setup == server = "null" /\ Idle

\* lines 86-101: on(route, method)(...handlers)
On(args, maxHandlers) ==
    /\ Setup
    /\ \E arg \in args, n \in 1..(maxHandlers - created) :
          /\ listeners' = OnPush(listeners, created + 1, n, arg.method, arg.route)
          /\ created' = created + n
    /\ UNCHANGED <<middleware, routers, merged, server, atClose, reqs, acts, stack, queue>>

\* lines 115-132, handlers[0] not a Router: use(route, method)(...handlers)
Use(args, maxHandlers) ==
    /\ Setup
    /\ \E arg \in args, n \in 1..(maxHandlers - created) :
          /\ middleware' = UsePush(middleware, created + 1, n, arg.method, arg.route,
                                   "user", <<>>)
          /\ created' = created + n
    /\ UNCHANGED <<listeners, routers, merged, server, atClose, reqs, acts, stack, queue>>

\* Router.use(route, method)(handler): the Router wraps the handler and
\* appends it to its own list
RouterUse(args, maxHandlers) ==
    /\ Setup
    /\ created < maxHandlers
    /\ \E r \in RouterIds, arg \in args :
          routers' = [routers EXCEPT
                         ![r] = @ \o <<Guarded(created + 1, arg.method, arg.route,
                                               "user", <<>>)>>]
    /\ created' = created + 1
    /\ UNCHANGED <<middleware, listeners, merged, server, atClose, reqs, acts, stack, queue>>

\* lines 115-132, handlers[0] a Router: use()(...routers); a call that
\* merges no handler changes nothing and is left out
UseRouters(maxHandlers) ==
    /\ Setup
    /\ \E rs \in {<<a>> : a \in RouterIds} \cup {<<a, b>> : a, b \in RouterIds} :
          /\ Len(UseRouterPush(middleware, rs)) > Len(middleware)
          /\ Len(UseRouterPush(middleware, rs)) + Len(listeners) <= maxHandlers
          /\ middleware' = UseRouterPush(middleware, rs)
          /\ merged' = Append(merged, [at |-> Len(middleware),
                                        lists |-> [i \in 1..Len(rs) |-> routers[rs[i]]]])
    /\ UNCHANGED <<listeners, routers, created, server, atClose, reqs, acts, stack, queue>>

\* lines 144-167: static(route, root)
Static(routes, roots, maxHandlers) ==
    /\ Setup
    /\ created < maxHandlers
    /\ \E route \in routes, root \in roots :
          middleware' = UsePush(middleware, created + 1, 1, "GET",
                                NormalizeRoute(route), "static", root)
    /\ created' = created + 1
    /\ UNCHANGED <<listeners, routers, merged, server, atClose, reqs, acts, stack, queue>>

\* lines 36-37: listen() binds the listener
Listen ==
    /\ server # "open"
    /\ Idle
    /\ server' = "open"
    /\ UNCHANGED <<middleware, listeners, routers, merged, created, atClose, reqs, acts, stack, queue>>

\* the connections accepted so far
Accepted == {c \in DOMAIN reqs : reqs[c].phase # "idle"}

\* the connections whose request is being handled: some activation of its
\* dispatch has not completed
InFlight ==
    {c \in DOMAIN reqs :
        \E a \in DOMAIN acts : acts[a].req = c /\ acts[a].pc \notin {"done", "failed"}}

\* lines 175-177: close(): this.#server?.close(); without a listener, or
\* with one that is closed already, nothing changes
Close ==
    /\ Idle
    /\ server' = IF server = "open" THEN "closed" ELSE server
    /\ atClose' = IF server = "open"
                  THEN [accepted |-> Accepted, inflight |-> InFlight]
                  ELSE atClose
    /\ UNCHANGED <<middleware, listeners, routers, merged, created, reqs, acts, stack, queue>>

\* an accept loop that goes on taking connections whatever the listener's state
AcceptAlways ==
    /\ Idle
    /\ \E c \in DOMAIN reqs :
          /\ reqs[c].phase = "idle"
          /\ reqs' = [reqs EXCEPT ![c].phase = "accepted"]
    /\ UNCHANGED <<middleware, listeners, routers, merged, created, server, atClose, acts, stack, queue>>

\* line 40: the accept loop takes a connection from the open listener
Accept ==
    /\ server = "open"
    /\ Idle
    /\ \E c \in DOMAIN reqs :
          /\ reqs[c].phase = "idle"
          /\ reqs' = [reqs EXCEPT ![c].phase = "accepted"]
    /\ UNCHANGED <<middleware, listeners, routers, merged, created, server, atClose, acts, stack, queue>>

\* ------------------------------------------------------------ dispatch
\* A closure returned by next(index): the no-op of line 61 (real = FALSE)
\* or the async function of lines 63-69
Closure(real, index) == [real |-> real, index |-> index]

NoClosure == Closure(FALSE, 0)

\* line 61: used.has(index) || !handlers[index + 1] gives the no-op;
\* handlers[index + 1] is the element index + 2 of the 1-based sequence
NextClosure(used, handlers, index) ==
    Closure(~(index \in used \/ index + 2 > Len(handlers)), index)

\* An activation of one of the three async functions:
\*   "next"     the closure of lines 63-69, for its index
\*   "guard"    the guarded handler of lines 6-15, at chain position index
\*   "handler"  the application's (or static's) handler at chain position index
\* cont is the continuation a guard or handler was given, parent the
\* activation that called it (0: #run itself), child the activation whose
\* promise it awaits, ops and nexts count a handler's operations and
\* continuation calls (fired: those it did not await), ok is a guard's
\* match result or a fetch's outcome, file the path the static handler
\* fetches; failedAt and sentAt are history: the number of activations
\* started and of responses sent when the activation's promise was rejected.
Act(kind, req, index, cont, parent) ==
    [kind |-> kind, req |-> req, index |-> index, cont |-> cont,
     parent |-> parent, child |-> 0, pc |-> "start", ops |-> 0, nexts |-> 0,
     fired |-> 0, ok |-> FALSE, file |-> <<>>, failedAt |-> 0, sentAt |-> 0]

Top == stack[Len(stack)]
Pop == SubSeq(stack, 1, Len(stack) - 1)
Running(kind, pc) ==
    stack # <<>> /\ acts[Top].kind = kind /\ acts[Top].pc = pc

\* the guarded handler an activation runs
HandlerOf(a) == reqs[acts[a].req].handlers[acts[a].index + 1]

\* the activation suspended on the promise of activation a, if any: each
\* promise here is awaited by the caller that created it, or by nobody
Waiter(a) ==
    LET p == acts[a].parent
    IN IF p # 0 /\ acts[p].pc = "waiting" /\ acts[p].child = a
       THEN <<p>> ELSE <<>>

\* an async function returns: its promise resolves and the reaction of the
\* awaiting activation is queued as a microtask
Return(a, ok) ==
    /\ acts' = [i \in DOMAIN acts |->
                  IF i = a THEN [acts[i] EXCEPT !.pc = "done", !.ok = ok]
                  ELSE IF <<i>> = Waiter(a) THEN [acts[i] EXCEPT !.pc = "queued"]
                  ELSE acts[i]]
    /\ queue' = queue \o Waiter(a)
    /\ stack' = Pop

\* an async function throws: its promise is rejected and the reaction of
\* the awaiting activation is queued as a microtask
Fail(a) ==
    /\ acts' = [i \in DOMAIN acts |->
                  IF i = a THEN [acts[i] EXCEPT !.pc = "failed",
                                                !.failedAt = Len(acts),
                                                !.sentAt = Len(reqs[acts[a].req].sent)]
                  ELSE IF <<i>> = Waiter(a) THEN [acts[i] EXCEPT !.pc = "queued"]
                  ELSE acts[i]]
    /\ queue' = queue \o Waiter(a)
    /\ stack' = Pop

\* control is back at an await: on a settled promise (or a value that is
\* no promise, child = 0) the continuation is queued at once, else the
\* activation waits for the promise; either way it leaves the stack
Suspend(a) ==
    LET c == acts[a].child
        settled == c = 0 \/ acts[c].pc \in {"done", "failed"}
    IN /\ acts' = [acts EXCEPT ![a].pc = IF settled THEN "queued" ELSE "waiting"]
       /\ queue' = IF settled THEN Append(queue, a) ELSE queue
       /\ stack' = Pop

\* calling a closure: the no-op returns at once, the async function starts
\* a "next" activation on top of the caller
Call(A, caller, req, closure) ==
    IF closure.real
    THEN /\ acts' = Append(A, Act("next", req, closure.index, NoClosure, caller))
         /\ stack' = Append(stack, Len(acts) + 1)
    ELSE /\ acts' = A
         /\ stack' = stack

\* RequestEvent.respond(payload): the event hands the response to the
\* callback it was constructed with (calls: every payload handed over)
EventRespond(q, payload) == [q EXCEPT !.calls = Append(@, payload)]

\* a respond callback without the responded flag
RespondAlways(q, response) ==
    [q EXCEPT !.sent = Append(@, response), !.responded = TRUE]

\* a respond callback whose test of the flag is inverted
RespondInverted(q, response) ==
    IF ~q.responded THEN q
    ELSE [q EXCEPT !.sent = Append(@, response), !.responded = TRUE]

\* lines 44-49: if (responded) return null; respondWith(response);
\* responded = true (sent: every response passed to respondWith)
RespondOnce(q, response) ==
    IF q.responded THEN q
    ELSE [q EXCEPT !.sent = Append(@, response), !.responded = TRUE]

\* lines 41-44 and 55-72: a request arrives on an accepted connection and
\* #run starts the chain with next()()
Request(methods, paths) ==
    /\ Idle
    /\ \E c \in DOMAIN reqs, method \in methods, path \in paths :
          /\ reqs[c].phase = "accepted"
          /\ reqs' = [reqs EXCEPT ![c] =
                         [NoRequest EXCEPT !.phase = "dispatched", !.method = method,
                                           !.path = path, !.handlers = Chain]]
          /\ Call(acts, 0, c, NextClosure({}, Chain, -1))
    /\ UNCHANGED <<middleware, listeners, routers, merged, created, server, atClose, queue>>

\* a closure that skips its handler once a response has been sent
NextStartUnlessResponded ==
    /\ Running("next", "start")
    /\ LET a == Top
           q == reqs[acts[a].req]
           i == acts[a].index
           g == Len(acts) + 1
       IN IF i \notin q.used /\ ~q.responded
          THEN /\ acts' = Append([acts EXCEPT ![a].pc = "await", ![a].child = g],
                                 Act("guard", acts[a].req, i + 1,
                                     NextClosure(q.used, q.handlers, i + 1), a))
               /\ stack' = Append(stack, g)
          ELSE /\ acts' = [acts EXCEPT ![a].pc = "mark"]
               /\ stack' = stack
    /\ UNCHANGED <<middleware, listeners, routers, merged, created, server, atClose, reqs, queue>>

\* lines 64-65: if (!used.has(index)) handlers[index + 1](httpRequest, next(index + 1))
NextStart ==
    /\ Running("next", "start")
    /\ LET a == Top
           q == reqs[acts[a].req]
           i == acts[a].index
           g == Len(acts) + 1
       IN IF i \notin q.used
          THEN /\ acts' = Append([acts EXCEPT ![a].pc = "await", ![a].child = g],
                                 Act("guard", acts[a].req, i + 1,
                                     NextClosure(q.used, q.handlers, i + 1), a))
               /\ stack' = Append(stack, g)
          ELSE /\ acts' = [acts EXCEPT ![a].pc = "mark"]
               /\ stack' = stack
    /\ UNCHANGED <<middleware, listeners, routers, merged, created, server, atClose, reqs, queue>>

\* line 65: await of the guarded handler's promise
NextAwait ==
    /\ Running("next", "await")
    /\ Suspend(Top)
    /\ UNCHANGED <<middleware, listeners, routers, merged, created, server, atClose, reqs>>

\* a driver whose used set is one for all requests
NextMarkShared ==
    /\ Running("next", "mark")
    /\ LET a == Top
           r == acts[a].req
           i == acts[a].index
           used == reqs[r].used \cup {i}
       IN /\ reqs' = [c \in DOMAIN reqs |-> [reqs[c] EXCEPT !.used = @ \cup {i}]]
          /\ Call([acts EXCEPT ![a].pc = "ret"], a, r,
                  NextClosure(used, reqs[r].handlers, i + 1))
    /\ UNCHANGED <<middleware, listeners, routers, merged, created, server, atClose, queue>>

\* lines 67-68: used.add(index); next(index + 1)()
NextMark ==
    /\ Running("next", "mark")
    /\ LET a == Top
           r == acts[a].req
           i == acts[a].index
           used == reqs[r].used \cup {i}
       IN /\ reqs' = [reqs EXCEPT ![r].used = used]
          /\ Call([acts EXCEPT ![a].pc = "ret"], a, r,
                  NextClosure(used, reqs[r].handlers, i + 1))
    /\ UNCHANGED <<middleware, listeners, routers, merged, created, server, atClose, queue>>

\* line 69: the closure returns
NextReturn ==
    /\ Running("next", "ret")
    /\ Return(Top, TRUE)
    /\ UNCHANGED <<middleware, listeners, routers, merged, created, server, atClose, reqs>>

\* a guarded handler that sets the route only when it matches
SetRouteOnMatch(q, h) ==
    IF Matches(h, q.method, q.path) THEN [q EXCEPT !.route = h.route] ELSE q

\* line 7: event.route = route
SetRoute(q, h) == [q EXCEPT !.route = h.route]

\* lines 7-13: event.route = route; the two tests; on a match the inner
\* handler is called, else the guarded handler returns false
GuardTest ==
    /\ Running("guard", "start")
    /\ LET a == Top
           r == acts[a].req
           h == HandlerOf(a)
           n == Len(acts) + 1
       IN /\ reqs' = [reqs EXCEPT ![r] = SetRoute(@, h)]
          /\ IF Matches(h, reqs[r].method, reqs[r].path)
             THEN /\ acts' = Append([acts EXCEPT ![a].pc = "await", ![a].child = n,
                                                 ![a].ok = TRUE],
                                    [Act("handler", r, acts[a].index, acts[a].cont, a)
                                        EXCEPT !.pc = "run"])
                  /\ stack' = Append(stack, n)
                  /\ queue' = queue
             ELSE Return(a, FALSE)
    /\ UNCHANGED <<middleware, listeners, routers, merged, created, server, atClose>>

\* line 13: await handler(event, next)
GuardAwait ==
    /\ Running("guard", "await")
    /\ Suspend(Top)
    /\ UNCHANGED <<middleware, listeners, routers, merged, created, server, atClose, reqs>>

\* line 13: (await handler(event, next), true)
GuardReturn ==
    /\ Running("guard", "resumed")
    /\ Return(Top, TRUE)
    /\ UNCHANGED <<middleware, listeners, routers, merged, created, server, atClose, reqs>>

\* an application handler is running and may still do something
UserStep(maxOps) ==
    /\ Running("handler", "run")
    /\ HandlerOf(Top).kind = "user"
    /\ reqs[acts[Top].req].ops < maxOps

\* an application handler calls event.respond(payload)
HandlerRespond(maxOps) ==
    /\ UserStep(maxOps)
    /\ LET a == Top
           r == acts[a].req
           payload == <<a, acts[a].ops>>
       IN /\ reqs' = [reqs EXCEPT ![r] = [RespondOnce(EventRespond(@, payload), payload)
                                             EXCEPT !.ops = @ + 1]]
          /\ acts' = [acts EXCEPT ![a].ops = @ + 1]
    /\ UNCHANGED <<middleware, listeners, routers, merged, created, server, atClose, stack, queue>>

\* an application handler calls its continuation and goes on: next()
HandlerCallNext(maxOps) ==
    /\ UserStep(maxOps)
    /\ LET a == Top
       IN /\ Call([acts EXCEPT ![a].ops = @ + 1, ![a].nexts = @ + 1,
                               ![a].fired = @ + 1],
                  a, acts[a].req, acts[a].cont)
          /\ reqs' = [reqs EXCEPT ![acts[a].req].ops = @ + 1]
    /\ UNCHANGED <<middleware, listeners, routers, merged, created, server, atClose, queue>>

\* an application handler calls its continuation and awaits what it
\* returns: await next()
HandlerAwaitNext(maxOps) ==
    /\ UserStep(maxOps)
    /\ LET a == Top
           n == IF acts[a].cont.real THEN Len(acts) + 1 ELSE 0
       IN /\ Call([acts EXCEPT ![a].ops = @ + 1, ![a].nexts = @ + 1,
                               ![a].pc = "await", ![a].child = n],
                  a, acts[a].req, acts[a].cont)
          /\ reqs' = [reqs EXCEPT ![acts[a].req].ops = @ + 1]
    /\ UNCHANGED <<middleware, listeners, routers, merged, created, server, atClose, queue>>

\* the await of await next()
HandlerAwait ==
    /\ Running("handler", "await")
    /\ Suspend(Top)
    /\ UNCHANGED <<middleware, listeners, routers, merged, created, server, atClose, reqs>>

\* an application handler awaits asynchronous work of its own (a timer, I/O)
HandlerIo(maxOps) ==
    /\ UserStep(maxOps)
    /\ acts' = [acts EXCEPT ![Top].ops = @ + 1, ![Top].pc = "io"]
    /\ reqs' = [reqs EXCEPT ![acts[Top].req].ops = @ + 1]
    /\ stack' = Pop
    /\ UNCHANGED <<middleware, listeners, routers, merged, created, server, atClose, queue>>

\* lines 148-156: the static handler computes the path and awaits fetch(path)
StaticFetch ==
    /\ Running("handler", "run")
    /\ HandlerOf(Top).kind = "static"
    /\ acts[Top].ops = 0
    /\ LET a == Top
           h == HandlerOf(a)
       IN acts' = [acts EXCEPT ![a].ops = 1, ![a].pc = "io",
                               ![a].file = FilePath(h.route, h.root, reqs[acts[a].req].path)]
    /\ stack' = Pop
    /\ UNCHANGED <<middleware, listeners, routers, merged, created, server, atClose, reqs, queue>>

\* lines 157-159: the fetch has succeeded and the then branch awaits
\* file.arrayBuffer()
StaticBody ==
    /\ Running("handler", "run")
    /\ HandlerOf(Top).kind = "static"
    /\ acts[Top].ops = 1
    /\ acts[Top].ok
    /\ acts' = [acts EXCEPT ![Top].ops = 2, ![Top].pc = "io"]
    /\ stack' = Pop
    /\ UNCHANGED <<middleware, listeners, routers, merged, created, server, atClose, reqs, queue>>

\* lines 158-163: respond with the body read, or, if the fetch or the
\* read of the body has failed, with status 404 from the catch branch
StaticRespond ==
    /\ Running("handler", "run")
    /\ HandlerOf(Top).kind = "static"
    /\ acts[Top].ops = 2 \/ (acts[Top].ops = 1 /\ ~acts[Top].ok)
    /\ LET a == Top
           r == acts[a].req
           payload == StaticPayload(acts[a].ok, acts[a].file)
       IN /\ reqs' = [reqs EXCEPT ![r] = RespondOnce(EventRespond(@, payload), payload)]
          /\ acts' = [acts EXCEPT ![a].ops = 3]
    /\ UNCHANGED <<middleware, listeners, routers, merged, created, server, atClose, stack, queue>>

\* a handler returns (the static handler after its respond)
HandlerReturn ==
    /\ Running("handler", "run")
    /\ HandlerOf(Top).kind = "static" => acts[Top].ops = 3
    /\ Return(Top, acts[Top].ok)
    /\ UNCHANGED <<middleware, listeners, routers, merged, created, server, atClose, reqs>>

\* the event loop runs the next microtask: the activation at the head of
\* the queue continues after its await
Resume ==
    /\ stack = <<>>
    /\ queue # <<>>
    /\ LET a == Head(queue)
           c == acts[a].child
           pc == CASE c # 0 /\ acts[c].pc = "failed" -> "thrown"
                   [] acts[a].kind = "next" -> "mark"
                   [] acts[a].kind = "guard" -> "resumed"
                   [] OTHER -> "run"
       IN acts' = [acts EXCEPT ![a].pc = pc]
    /\ stack' = <<Head(queue)>>
    /\ queue' = Tail(queue)
    /\ UNCHANGED <<middleware, listeners, routers, merged, created, server, atClose, reqs>>

\* an application handler fails: a plain function throws (sync, possible
\* while it still runs in the call of the guarded handler, whose await of
\* line 13 is then never reached: the guarded handler's promise is
\* rejected in the same step), or an async function throws and its promise
\* is rejected
HandlerThrow(maxOps) ==
    /\ UserStep(maxOps)
    /\ \E sync \in BOOLEAN :
          LET a == Top
              g == acts[a].parent
              now == Len(acts)
              sent == Len(reqs[acts[a].req].sent)
          IN IF sync
             THEN /\ Len(stack) >= 2 /\ stack[Len(stack) - 1] = g
                  /\ acts[a].nexts = acts[a].fired
                  /\ acts' = [i \in DOMAIN acts |->
                                IF i \in {a, g}
                                THEN [acts[i] EXCEPT !.pc = "failed", !.failedAt = now,
                                                     !.sentAt = sent]
                                ELSE acts[i]]
                  /\ stack' = SubSeq(stack, 1, Len(stack) - 2)
                  /\ queue' = queue
             ELSE Fail(a)
    /\ UNCHANGED <<middleware, listeners, routers, merged, created, server, atClose, reqs>>

\* the await of lines 13, 65 or of a handler without try/catch throws the
\* reason of the rejected promise: the awaiting function's own promise is
\* rejected (lines 67-68 are not reached)
Propagate ==
    /\ stack # <<>>
    /\ acts[Top].pc = "thrown"
    /\ Fail(Top)
    /\ UNCHANGED <<middleware, listeners, routers, merged, created, server, atClose, reqs>>

\* an application handler has its await next() in a try block: it catches
\* the failure and goes on
HandlerCatch ==
    /\ Running("handler", "thrown")
    /\ acts' = [acts EXCEPT ![Top].pc = "run"]
    /\ UNCHANGED <<middleware, listeners, routers, merged, created, server, atClose, reqs, stack, queue>>

\* a macrotask: asynchronous work a handler awaits completes (for the
\* static handler: the fetch succeeds or fails), and the handler continues
IoComplete ==
    /\ Idle
    /\ \E a \in DOMAIN acts, ok \in BOOLEAN :
          /\ acts[a].pc = "io"
          /\ HandlerOf(a).kind = "user" => ok = FALSE
          /\ acts' = [acts EXCEPT ![a].pc = "run", ![a].ok = ok]
          /\ stack' = <<a>>
    /\ UNCHANGED <<middleware, listeners, routers, merged, created, server, atClose, reqs, queue>>

\* ------------------------------------------------------------ specifications
\* what the application registers and the clients send
Arg(route, method) == [route |-> route, method |-> method]
Args == {Arg(<<Slash>>, "ANY"), Arg(<<Slash, "hello">>, "GET")}
RequestMethods == {"GET", "POST"}
Paths == {<<Slash>>, <<Slash, "hello">>}

\* the steps of the event loop
ChainStep ==
    \/ NextStart \/ NextAwait \/ NextMark \/ NextReturn
    \/ GuardTest \/ GuardAwait \/ GuardReturn
    \/ HandlerReturn \/ Resume \/ IoComplete

\* the steps of the application's handlers
UserSteps(maxOps) ==
    \/ HandlerRespond(maxOps) \/ HandlerCallNext(maxOps)
    \/ HandlerAwaitNext(maxOps) \/ HandlerAwait
    \/ HandlerIo(maxOps)

\* the steps of the static-file handler
StaticSteps == StaticFetch \/ StaticBody \/ StaticRespond

Step(maxOps) == ChainStep \/ UserSteps(maxOps)

\* the steps of a failure: a handler throws, the failure travels up the
\* awaits, a handler catches it
FailSteps(maxOps) == HandlerThrow(maxOps) \/ Propagate \/ HandlerCatch

\* the client connections: one, or two at a time
Clients == {"c1", "c2"}

Init == InitWith({"c1"})

Next ==
    \/ On(Args, MaxHandlers)
    \/ Use(Args, MaxHandlers)
    \/ Listen
    \/ Close
    \/ Accept
    \/ Request(RequestMethods, Paths)
    \/ Step(MaxOps)

Spec == Init /\ [][Next]_vars

\* The event loop runs whatever is ready, and the asynchronous work a
\* handler awaits completes: every handler invocation returns in the end.
SpecLive == Init /\ [][Next]_vars /\ WF_vars(Step(MaxOps))

\* The application registers with the default route of use() and on(),
\* which matches every path; one more handler and one more operation than
\* under Spec.
ChainHandlers == MaxHandlers + 1
ChainOps == MaxOps + 1
ChainArgs == {Arg(<<Slash, Star>>, "ANY")}

NextChain ==
    \/ On(ChainArgs, ChainHandlers)
    \/ Use(ChainArgs, ChainHandlers)
    \/ Listen
    \/ Close
    \/ Accept
    \/ Request({"GET"}, {<<Slash, "hello">>})
    \/ Step(ChainOps)

SpecChain == Init /\ [][NextChain]_vars

\* The application's handlers may throw.
NextFail ==
    \/ On(Args, MaxHandlers)
    \/ Use(Args, MaxHandlers)
    \/ Listen
    \/ Close
    \/ Accept
    \/ Request(RequestMethods, Paths)
    \/ Step(MaxOps)
    \/ FailSteps(MaxOps)

SpecFail == Init /\ [][NextFail]_vars

\* Two clients are connected at a time; the application's handlers are
\* registered by on() with the default route.
InitConc == InitWith(Clients)

NextConc ==
    \/ On(ChainArgs, MaxHandlers)
    \/ Listen
    \/ Accept
    \/ Request({"GET"}, {<<Slash, "hello">>})
    \/ Step(MaxOps)

SpecConc == InitConc /\ [][NextConc]_vars

\* The application builds its server from Routers, use and on.
NextRouter ==
    \/ On(Args, MaxHandlers)
    \/ Use(Args, MaxHandlers)
    \/ RouterUse(Args, MaxHandlers)
    \/ UseRouters(MaxHandlers)
    \/ Listen
    \/ Close

SpecRouter == Init /\ [][NextRouter]_vars

\* The application mounts one static directory; routes and paths are all
\* the strings of at most MaxLen tokens, and the strings of spec.md.
Strings(tokens, n) == UNION {[1..k -> tokens] : k \in 0..n}
StaticRoutes ==
    Strings({Slash, Star, "files"}, MaxLen) \cup {<<Slash, "files", Slash, Star>>}
StaticPaths ==
    {<<Slash>> \o p : p \in Strings({Slash, "files", "a"}, MaxLen)}
        \cup {<<Slash, "files", Slash, "readme.txt">>,
              <<Slash, "files", Slash, "index.html">>,
              <<Slash, "files", Slash, "a", Slash, "b.txt">>}
Roots == {<<"public">>, <<>>}

NextStatic ==
    \/ Static(StaticRoutes, Roots, 1)
    \/ Listen
    \/ Close
    \/ Accept
    \/ Request(RequestMethods, StaticPaths)
    \/ ChainStep
    \/ StaticSteps

SpecStatic == Init /\ [][NextStatic]_vars

\* ------------------------------------------------------------ observations
\* the requests that have been dispatched
Dispatched == {r \in DOMAIN reqs : reqs[r].phase = "dispatched"}

\* the activations of one kind started for request r, oldest first
ActsOf(kind, r) == SelectSeq(acts, LAMBDA x : x.kind = kind /\ x.req = r)

\* the chain positions (0-based, as in handlers[index + 1]) of the guarded
\* handlers tested for r, in the order they were called
Tested(r) == [i \in 1..Len(ActsOf("guard", r)) |-> ActsOf("guard", r)[i].index]

\* the chain positions of the inner handlers invoked for r, in order
Invoked(r) == [i \in 1..Len(ActsOf("handler", r)) |-> ActsOf("handler", r)[i].index]

\* the chain positions whose guarded handler matches the request r
RECURSIVE MatchingFrom(_, _)
MatchingFrom(r, k) ==
    IF k >= Len(reqs[r].handlers) THEN <<>>
    ELSE (IF Matches(reqs[r].handlers[k + 1], reqs[r].method, reqs[r].path)
          THEN <<k>> ELSE <<>>) \o MatchingFrom(r, k + 1)

Matching(r) == MatchingFrom(r, 0)

\* nothing of request r is running, queued or waiting any more
Quiescent(r) ==
    /\ r \in Dispatched
    /\ \A a \in DOMAIN acts : acts[a].req = r => acts[a].pc \in {"done", "failed"}

\* ------------------------------------------------------------ claims

\* the inner handlers run for r
HandlerActs(r) == {a \in DOMAIN acts : acts[a].kind = "handler" /\ acts[a].req = r}

\* no run of a handler has called its continuation more than once
SingleCalls(r) == \A a \in HandlerActs(r) : acts[a].nexts <= 1

\* C1: for every request, whatever each handler does with its continuation
\* (never calls it, calls and awaits it, calls it without awaiting it; none
\* more than once), once the dispatch has finished the inner handlers that
\* were invoked are exactly the ones whose method and pattern match, in
\* chain order, each exactly once.
C1_MatchingInvokedOnceInOrder ==
    \A r \in Dispatched :
        (Quiescent(r) /\ SingleCalls(r)) => Invoked(r) = Matching(r)

\* C3: for every request, however often and from however many handlers
\* respond is called, respondWith is invoked exactly once, with the payload
\* of the first call (and not at all while respond has not been called).
C3_FirstRespondWins ==
    \A r \in DOMAIN reqs :
        reqs[r].sent = IF reqs[r].calls = <<>> THEN <<>> ELSE <<reqs[r].calls[1]>>

\* two handlers have called respond for one request, one response was sent
C3_Witness ==
    \E r \in Dispatched :
        /\ Len(reqs[r].calls) >= 2
        /\ reqs[r].calls[1][1] # reqs[r].calls[2][1]
        /\ reqs[r].sent = <<reqs[r].calls[1]>>

\* C4 as stated: every dispatched request has got exactly one response by
\* the time its dispatch has finished.
C4_ResponseExactlyOnce ==
    \A r \in Dispatched : Quiescent(r) => Len(reqs[r].sent) = 1

\* C4 amended: a dispatched request gets at most one response, and it gets
\* one exactly when some handler has called respond.
C4_ResponseAtMostOnce ==
    \A r \in Dispatched :
        /\ Len(reqs[r].sent) <= 1
        /\ Len(reqs[r].sent) = 1 <=> Len(reqs[r].calls) >= 1

\* a dispatch has finished and its one response has been sent
C4_Witness ==
    \E r \in Dispatched :
        Quiescent(r) /\ Len(reqs[r].sent) = 1 /\ Len(reqs[r].calls) >= 1

\* the inner handler activations a guarded-handler activation g started
InnerOf(g) == {a \in DOMAIN acts : acts[a].kind = "handler" /\ acts[a].parent = g}

\* the guarded-handler activations that have made their test
GuardsTested == {g \in DOMAIN acts : acts[g].kind = "guard" /\ acts[g].pc # "start"}

\* C5: a guarded handler invokes its inner handler (once) if and only if
\* the route pattern matches the path and the method equals the request's
\* or is "ANY"; on a match it returns true, and only after the inner
\* handler has completed; on a non-match it returns false at once, having
\* invoked neither the inner handler nor the continuation.
C5_GuardedHandler ==
    \A g \in GuardsTested :
        LET h == HandlerOf(g)
            q == reqs[acts[g].req]
            match == /\ PatternTest(h.route, q.path)
                     /\ (h.method = q.method \/ h.method = "ANY")
        IN /\ match => Cardinality(InnerOf(g)) = 1
           /\ (match /\ acts[g].pc = "done") =>
                  acts[g].ok /\ \A a \in InnerOf(g) : acts[a].pc = "done"
           /\ ~match =>
                  /\ acts[g].pc = "done" /\ ~acts[g].ok
                  /\ InnerOf(g) = {}
                  /\ \A a \in DOMAIN acts : acts[a].parent # g

\* one request has been through a guarded handler that matched by "ANY"
\* and returned true, and through one that did not match
C5_Witness ==
    \E g1, g2 \in GuardsTested :
        /\ acts[g1].req = acts[g2].req
        /\ HandlerOf(g1).method = "ANY" /\ reqs[acts[g1].req].method = "POST"
        /\ acts[g1].pc = "done" /\ acts[g1].ok
        /\ acts[g2].pc = "done" /\ ~acts[g2].ok

\* the scenario of C9: use('/', 'ANY')(logHandler), then
\* on('/hello', 'GET')(helloHandler), and a request for /hello
HelloScenario(r) ==
    /\ middleware = <<Guarded(1, "ANY", <<Slash>>, "user", <<>>)>>
    /\ listeners = <<Guarded(2, "GET", <<Slash, "hello">>, "user", <<>>)>>
    /\ reqs[r].handlers = middleware \o listeners
    /\ reqs[r].path = <<Slash, "hello">>
    /\ Quiescent(r)

\* C9 as stated: in the scenario a GET to /hello runs logHandler then
\* helloHandler, and a POST to /hello runs only logHandler.
C9_HelloAsStated ==
    \A r \in Dispatched :
        HelloScenario(r) =>
            /\ reqs[r].method = "GET" => Invoked(r) = <<0, 1>>
            /\ reqs[r].method = "POST" => Invoked(r) = <<0>>

\* C9 amended: the pattern '/' matches the path '/' only, so in the
\* scenario a GET to /hello runs helloHandler alone and a POST to /hello
\* runs no handler.
C9_HelloAmended ==
    \A r \in Dispatched :
        HelloScenario(r) =>
            /\ reqs[r].method = "GET" => Invoked(r) = <<1>>
            /\ reqs[r].method = "POST" => Invoked(r) = <<>>

\* the scenario has run for a GET to /hello
C9_Witness ==
    \E r \in Dispatched :
        HelloScenario(r) /\ reqs[r].method = "GET" /\ Invoked(r) = <<1>>

\* the guarded handlers tested for r, in the order they were tested
TestedHandlers(r) == [i \in 1..Len(Tested(r)) |-> reqs[r].handlers[Tested(r)[i] + 1]]

\* the guarded handler was registered via use (it is in #middleware)
IsUse(h) == \E i \in 1..Len(middleware) : middleware[i].id = h.id

\* C2: however the use and on calls were interleaved, during a request no
\* handler registered via use is tested after a handler registered via on,
\* and within each group the tests follow the registration order (ids are
\* given in registration order); stated for handlers none of which calls
\* its continuation twice.
C2_UseTestedBeforeOn ==
    \A r \in Dispatched :
        SingleCalls(r) =>
            LET t == TestedHandlers(r)
            IN \A i, j \in 1..Len(t) :
                   i < j => /\ IsUse(t[j]) => IsUse(t[i])
                            /\ IsUse(t[i]) = IsUse(t[j]) => t[i].id <= t[j].id

\* C6: in a chain of three matching handlers whose middle one never calls
\* its continuation, and in which no handler calls it more than once, each
\* of the three has run exactly once, in chain order, when the dispatch has
\* finished.
C6_MiddleDoesNotStopChain ==
    \A r \in Dispatched :
        ( /\ Quiescent(r)
          /\ Matching(r) = <<0, 1, 2>>
          /\ SingleCalls(r)
          /\ \A a \in HandlerActs(r) : acts[a].index = 1 => acts[a].nexts = 0 )
        => Invoked(r) = <<0, 1, 2>>

\* a handler run that is inside a call of its continuation: the call is
\* still on the stack above it, or it is suspended at await next()
InContinuation(a) ==
    \/ acts[a].pc \in {"await", "waiting", "queued"}
    \/ \E i \in 1..(Len(stack) - 1) : stack[i] = a

\* the handler runs of r that have started, have not completed and are not
\* inside a call of their continuation
InProgress(r) ==
    {a \in HandlerActs(r) : acts[a].pc # "done" /\ ~InContinuation(a)}

\* C7: within one request at most one handler is started and not completed
\* at any moment, handlers inside a call of their own continuation aside;
\* stated for handlers that await every continuation call they make.
C7_StrictlySequential ==
    \A r \in Dispatched :
        (\A a \in HandlerActs(r) : acts[a].fired = 0)
            => Cardinality(InProgress(r)) <= 1

\* C8: a use(router, ...) call appends the handler lists of its Routers to
\* the middleware list in argument order: from the place where the list
\* ended at the call, the list holds the Routers' handlers as one block,
\* each Router's in its own order, nothing inserted, dropped or repeated,
\* and later registrations leave the block where it is.
C8_RouterBlocks ==
    \A i \in 1..Len(merged) :
        LET block == Concat(merged[i].lists)
            at == merged[i].at
        IN /\ at + Len(block) <= Len(middleware)
           /\ SubSeq(middleware, at + 1, at + Len(block)) = block

\* one use call has merged two Routers with different, non-empty lists
C8_Witness ==
    \E i \in 1..Len(merged) :
        /\ Len(merged[i].lists) = 2
        /\ merged[i].lists[1] # <<>> /\ merged[i].lists[2] # <<>>
        /\ merged[i].lists[1] # merged[i].lists[2]
        /\ SubSeq(middleware, merged[i].at + 1, merged[i].at + 2)
               = merged[i].lists[1] \o merged[i].lists[2]

\* the runs of the static-file handler that have fetched
StaticFetches ==
    {a \in DOMAIN acts : /\ acts[a].kind = "handler"
                         /\ HandlerOf(a).kind = "static"
                         /\ acts[a].ops >= 1}

\* the segments of a sequence after its first k
DropFirst(segs, k) ==
    IF Len(segs) <= k THEN <<>> ELSE [i \in 1..(Len(segs) - k) |-> segs[i + k]]

\* a path of single slashes that ends in the wildcard segment
EndsInWildcard(route) ==
    /\ Len(route) >= 2
    /\ route[1] = Slash
    /\ \A i \in 1..(Len(route) - 1) : ~(route[i] = Slash /\ route[i + 1] = Slash)
    /\ route[Len(route) - 1] = Slash /\ route[Len(route)] = Star

\* C10: static(route, root) registers a route of single slashes that ends
\* in '/*'; for a request it handles, the file read is root followed by the
\* path's segments after the first k, k being the number of segments of
\* the registered route that are neither empty nor '*'. Route /files
\* becomes /files/*; with root public, /files/readme.txt reads
\* public/readme.txt, and /files/a/b.txt leaves a/b.txt.
C10_StaticFile ==
    /\ NormalizeRoute(<<Slash, "files">>) = <<Slash, "files", Slash, Star>>
    /\ \A i \in 1..Len(middleware) :
           middleware[i].kind = "static" => EndsInWildcard(middleware[i].route)
    /\ \A a \in StaticFetches :
           LET h == HandlerOf(a)
               path == reqs[acts[a].req].path
               segs == Split(h.route)
               k == Cardinality({i \in 1..Len(segs) : segs[i] # <<>> /\ segs[i] # <<Star>>})
           IN /\ acts[a].file = Join(<<Cwd, h.root>> \o DropFirst(Split(Tail(path)), k))
              /\ (/\ h.route = <<Slash, "files", Slash, Star>>
                  /\ h.root = <<"public">>
                  /\ path = <<Slash, "files", Slash, "readme.txt">>)
                 => acts[a].file = <<"cwd", Slash, "public", Slash, "readme.txt">>
              /\ (/\ h.route = <<Slash, "files", Slash, Star>>
                  /\ path = <<Slash, "files", Slash, "a", Slash, "b.txt">>)
                 => acts[a].file = Cwd \o <<Slash>> \o h.root \o <<Slash, "a", Slash, "b.txt">>

\* /files/a/b.txt has been fetched from the mount static('/files', 'public')
C10_Witness ==
    \E a \in StaticFetches :
        /\ HandlerOf(a).route = <<Slash, "files", Slash, Star>>
        /\ HandlerOf(a).root = <<"public">>
        /\ reqs[acts[a].req].path = <<Slash, "files", Slash, "a", Slash, "b.txt">>
        /\ acts[a].file = <<"cwd", Slash, "public", Slash, "a", Slash, "b.txt">>

\* the runs of the static-file handler that have completed
StaticDone == {a \in StaticFetches : acts[a].pc = "done"}

\* C11: when the static-file handler has completed for a request, it has
\* called respond exactly once: with the file read and the content type of
\* its extension if the fetch and the read of the body succeeded, with
\* status 404 if either failed; its promise is never rejected.
C11_StaticRespondsOnce ==
    /\ \A a \in StaticFetches : acts[a].pc # "failed"
    /\ \A a \in StaticDone :
           LET q == reqs[acts[a].req]
               file == acts[a].file
               type == IF file[Len(file)] = "index.html" THEN "text/html"
                       ELSE "text/plain"
           IN /\ Len(q.calls) = 1
              /\ acts[a].ok => q.calls[1] = <<"file", file, type>>
              /\ ~acts[a].ok => q.calls[1] = <<"404", <<>>, "">>

\* both outcomes have happened: an html file was served with its type, or
\* a read failed and 404 was the response
C11_Witness ==
    \E a \in StaticDone :
        /\ ~acts[a].ok
        /\ reqs[acts[a].req].sent = <<<<"404", <<>>, "">>>>

\* a file has been served as text/html
C11_WitnessFile ==
    \E a \in StaticDone :
        /\ acts[a].ok
        /\ reqs[acts[a].req].sent = <<<<"file", acts[a].file, "text/html">>>>

TimesInvoked(r, k) == Cardinality({a \in HandlerActs(r) : acts[a].index = k})

\* C13: when a run of a handler has called its continuation more than
\* once, no handler at a later chain position has been invoked more than
\* once for the request.
C13_RepeatedCallsAreNoOps ==
    \A r \in Dispatched :
        \A a \in HandlerActs(r) :
            acts[a].nexts >= 2 =>
                \A k \in (acts[a].index + 1)..(Len(reqs[r].handlers) - 1) :
                    TimesInvoked(r, k) <= 1

\* the handler runs that have called their continuation, awaited it and
\* gone on with the code after the call
AfterContinuation(r) ==
    {a \in HandlerActs(r) : /\ acts[a].nexts > acts[a].fired
                            /\ acts[a].pc \notin {"await", "waiting", "queued"}}

\* C14: in a request whose handlers await every continuation call they
\* make, while a handler is past its awaited continuation call every run
\* of a handler at a later chain position has completed.
C14_WrapAround ==
    \A r \in Dispatched :
        (\A a \in HandlerActs(r) : acts[a].fired = 0) =>
            \A a \in AfterContinuation(r), b \in HandlerActs(r) :
                acts[b].index > acts[a].index => acts[b].pc = "done"

\* the handler runs of r that have thrown or whose promise was rejected
FailedHandlers(r) == {a \in HandlerActs(r) : acts[a].pc = "failed"}

\* C19: after a run of the handler at position i has failed, the handlers
\* invoked for the request are at positions before i only: none at a later
\* position, and the failed one not a second time; stated for handlers
\* none of which calls its continuation twice.
C19_FailureStopsChain ==
    \A r \in Dispatched :
        SingleCalls(r) =>
            \A f \in FailedHandlers(r) :
                \A b \in HandlerActs(r) :
                    b > acts[f].failedAt => acts[b].index < acts[f].index

\* the handler runs that have just been invoked: nothing of their body has run
JustInvoked ==
    {a \in DOMAIN acts : /\ acts[a].kind = "handler" /\ acts[a].pc = "run"
                         /\ acts[a].ops = 0 /\ stack # <<>> /\ Top = a}

\* the tests made for r so far, oldest first
TestsOf(r) == SelectSeq(ActsOf("guard", r), LAMBDA g : g.pc # "start")

\* C15 as stated: an inner handler sees its own pattern in event.route
\* when it is invoked, and once the dispatch of a non-empty chain has
\* finished event.route is the pattern of the last handler of the chain.
C15_RouteOfLastInChain ==
    /\ \A a \in JustInvoked : reqs[acts[a].req].route = HandlerOf(a).route
    /\ \A r \in Dispatched :
           (Quiescent(r) /\ reqs[r].handlers # <<>>) =>
               reqs[r].route = reqs[r].handlers[Len(reqs[r].handlers)].route

\* C15 amended: an inner handler sees its own pattern in event.route when
\* it is invoked, and at any moment event.route is the pattern of the
\* guarded handler tested last for the request, matching or not; that is
\* the last handler of the chain only if the chain was walked to its end.
C15_RouteOfLastTested ==
    /\ \A a \in JustInvoked : reqs[acts[a].req].route = HandlerOf(a).route
    /\ \A r \in Dispatched :
           LET t == TestsOf(r)
           IN t # <<>> =>
                  reqs[r].route = reqs[r].handlers[t[Len(t)].index + 1].route

\* a dispatch has finished on a failure of the first of two handlers with
\* different patterns: event.route is the first one's pattern
C15_Witness ==
    \E r \in Dispatched :
        /\ Quiescent(r)
        /\ Len(reqs[r].handlers) = 2
        /\ reqs[r].handlers[1].route # reqs[r].handlers[2].route
        /\ Tested(r) = <<0>>
        /\ reqs[r].route = reqs[r].handlers[1].route

\* the chain position of the handler run that made the j-th respond call
\* of r (a handler's payload carries its activation)
Responder(r, j) == acts[reqs[r].calls[j][1]].index

\* C16: when the dispatch of a request during which a handler has called
\* respond has finished (no handler having failed), every guarded handler
\* at a position after the first responder's has been tested and, if it
\* matches, its inner handler has run; the response sent is the first
\* call's, the later calls are dropped.
C16_ChainGoesOnAfterRespond ==
    \A r \in Dispatched :
        (Quiescent(r) /\ reqs[r].calls # <<>> /\ FailedHandlers(r) = {}) =>
            /\ \A k \in (Responder(r, 1) + 1)..(Len(reqs[r].handlers) - 1) :
                   /\ \E i \in 1..Len(Tested(r)) : Tested(r)[i] = k
                   /\ Matches(reqs[r].handlers[k + 1], reqs[r].method, reqs[r].path)
                          => TimesInvoked(r, k) >= 1
            /\ reqs[r].sent = <<reqs[r].calls[1]>>

\* the first handler has responded, the second one has run after that and
\* has called respond too: one response, the first handler's
C16_Witness ==
    \E r \in Dispatched :
        /\ Quiescent(r)
        /\ Len(reqs[r].calls) = 2
        /\ Responder(r, 1) = 0 /\ Responder(r, 2) = 1
        /\ Invoked(r) = <<0, 1>>
        /\ reqs[r].sent = <<reqs[r].calls[1]>>

\* every dispatch comes to an end: nothing of it is running, queued or
\* awaited any more, so no further handler will be invoked
Terminates == \A r \in Clients : (r \in Dispatched) ~> Quiescent(r)

\* C17: the dispatch of a request comes to an end (the event loop running
\* what is ready, awaited work completing), and the inner handlers invoked
\* for a request are never more than the chain has handlers, none for an
\* empty chain; stated for handlers none of which calls its continuation
\* twice.
C17_DispatchTerminates ==
    /\ Terminates
    /\ [](\A r \in Dispatched :
             SingleCalls(r) => Len(Invoked(r)) <= Len(reqs[r].handlers))

\* the closures of r that have marked their index (line 67)
Marked(r) ==
    {acts[a].index : a \in {b \in DOMAIN acts : /\ acts[b].kind = "next"
                                                /\ acts[b].req = r
                                                /\ acts[b].pc \in {"ret", "done"}}}

\* C18: with two requests handled at a time, each request's consumed set
\* holds the positions its own closures have marked and no other, its
\* responded flag is set exactly when one of its own handler runs has
\* called respond, the one response it gets is the first its own handlers
\* passed, and when its dispatch has finished every handler of the chain
\* (every one matches here) has been invoked for it.
C18_RequestsIsolated ==
    \A r \in Dispatched :
        /\ reqs[r].used = Marked(r)
        /\ reqs[r].responded <=> reqs[r].calls # <<>>
        /\ \A j \in 1..Len(reqs[r].calls) : acts[reqs[r].calls[j][1]].req = r
        /\ reqs[r].sent = IF reqs[r].calls = <<>> THEN <<>> ELSE <<reqs[r].calls[1]>>
        /\ Quiescent(r) =>
               \A k \in 0..(Len(reqs[r].handlers) - 1) : TimesInvoked(r, k) >= 1

\* two requests were handled at the same time (the activations of one lie
\* between activations of the other), each has gone through the chain and
\* has got its own response
C18_Witness ==
    /\ \A r \in Clients :
           /\ r \in Dispatched /\ Quiescent(r)
           /\ Len(reqs[r].sent) = 1
           /\ Len(reqs[r].handlers) = 2
    /\ \E a, b, c \in DOMAIN acts :
           a < b /\ b < c /\ acts[a].req = acts[c].req /\ acts[a].req # acts[b].req

====
